---- MODULE Spec2Model ----
(***************************************************************************)
(* State-machine model of nlp/analise_nlp_spacy_lemma_parsing_chunks.py:   *)
(* the module-level imports, ensure_dependencies(), the path prompt and    *)
(* process_text_file(), together with the host environment the script      *)
(* reads and mutates (installed packages, the input paths, the four        *)
(* output files in the working directory).                                 *)
(*                                                                         *)
(* Text is a sequence of one-character strings; a few literals that the    *)
(* code emits whole (column names, str(True)) are kept as one symbol.      *)
(***************************************************************************)
EXTENDS Integers, Sequences, FiniteSets, TLC

\* ------------------------------------------------------------- bounds
\* Longest token / noun-chunk / entity sequence a document may hold, and
\* how many times the script is invoked one after the other.
MaxTokens == 2
MaxChunks == 2
MaxEnts == 2
MaxRuns == 2

\* ------------------------------------------------------------- text
LF == "\n"
COMMA == ","
QUOTE == "\""

\* "sep".join(parts), as str.join computes it (lines 117 and 125).
RECURSIVE Join(_, _)
Join(sep, parts) ==
    IF Len(parts) = 0 THEN <<>>
    ELSE IF Len(parts) = 1 THEN parts[1]
    ELSE parts[1] \o sep \o Join(sep, Tail(parts))

\* The lines of a text file's content: split at every line break, a final
\* line break ending the last line (str.splitlines); no content, no lines.
RECURSIVE SplitLines(_, _, _)
SplitLines(s, cur, started) ==
    IF Len(s) = 0 THEN (IF started THEN <<cur>> ELSE <<>>)
    ELSE IF Head(s) = LF THEN <<cur>> \o SplitLines(Tail(s), <<>>, FALSE)
    ELSE SplitLines(Tail(s), Append(cur, Head(s)), TRUE)

Lines(s) == SplitLines(s, <<>>, FALSE)

\* All sequences over S of length 0..n.
SeqUpTo(S, n) == UNION {[1..k -> S] : k \in 0..n}

\* ------------------------------------------------------------- documents
\* What the external model yields for a token: the eight attributes that
\* lines 101-108 read.  The values are samples of what pt_core_news_sm
\* produces: a word, a comma, a line-break token and a quotation mark.
TokenSamples ==
    { [text |-> <<"O">>, lemma_ |-> <<"o">>, pos_ |-> <<"DET">>,
       tag_ |-> <<"ART">>, dep_ |-> <<"det">>, shape_ |-> <<"X">>,
       is_alpha |-> TRUE, is_stop |-> TRUE],
      [text |-> <<COMMA>>, lemma_ |-> <<COMMA>>, pos_ |-> <<"PUNCT">>,
       tag_ |-> <<"PU">>, dep_ |-> <<"punct">>, shape_ |-> <<COMMA>>,
       is_alpha |-> FALSE, is_stop |-> FALSE],
      [text |-> <<LF>>, lemma_ |-> <<LF>>, pos_ |-> <<"SPACE">>,
       tag_ |-> <<"_SP">>, dep_ |-> <<"dep">>, shape_ |-> <<LF>>,
       is_alpha |-> FALSE, is_stop |-> FALSE],
      [text |-> <<QUOTE>>, lemma_ |-> <<QUOTE>>, pos_ |-> <<"PUNCT">>,
       tag_ |-> <<"PU">>, dep_ |-> <<"punct">>, shape_ |-> <<QUOTE>>,
       is_alpha |-> FALSE, is_stop |-> FALSE] }

\* Surface texts of noun chunks: a span may run over a line-break token.
ChunkSamples == { <<"O", " ", "g">>, <<"g", LF, "p">> }

\* Entities: surface text and label; again a span may hold a line break.
EntSamples ==
    { [text |-> <<"R", "i", "o">>, label_ |-> <<"LOC">>],
      [text |-> <<"A", LF, "B">>, label_ |-> <<"PER">>] }

\* The Doc objects nlp(text) may return.
Docs ==
    [ tokens : SeqUpTo(TokenSamples, MaxTokens),
      noun_chunks : SeqUpTo(ChunkSamples, MaxChunks),
      ents : SeqUpTo(EntSamples, MaxEnts) ]

NoDoc == [tokens |-> <<>>, noun_chunks |-> <<>>, ents |-> <<>>]

\* Three of them: of an empty text, of a one-line text, and of a text whose
\* line breaks fall inside a noun chunk and inside an entity.
SampleDocs ==
    { NoDoc,
      [tokens |-> <<[text |-> <<"O">>, lemma_ |-> <<"o">>, pos_ |-> <<"DET">>,
                     tag_ |-> <<"ART">>, dep_ |-> <<"det">>, shape_ |-> <<"X">>,
                     is_alpha |-> TRUE, is_stop |-> TRUE],
                    [text |-> <<COMMA>>, lemma_ |-> <<COMMA>>,
                     pos_ |-> <<"PUNCT">>, tag_ |-> <<"PU">>,
                     dep_ |-> <<"punct">>, shape_ |-> <<COMMA>>,
                     is_alpha |-> FALSE, is_stop |-> FALSE]>>,
       noun_chunks |-> << <<"O", " ", "g">> >>,
       ents |-> <<[text |-> <<"R", "i", "o">>, label_ |-> <<"LOC">>]>>],
      [tokens |-> <<[text |-> <<LF>>, lemma_ |-> <<LF>>, pos_ |-> <<"SPACE">>,
                     tag_ |-> <<"_SP">>, dep_ |-> <<"dep">>, shape_ |-> <<LF>>,
                     is_alpha |-> FALSE, is_stop |-> FALSE],
                    [text |-> <<QUOTE>>, lemma_ |-> <<QUOTE>>,
                     pos_ |-> <<"PUNCT">>, tag_ |-> <<"PU">>,
                     dep_ |-> <<"punct">>, shape_ |-> <<QUOTE>>,
                     is_alpha |-> FALSE, is_stop |-> FALSE]>>,
       noun_chunks |-> << <<"O", " ", "g">>, <<"g", LF, "p">> >>,
       ents |-> <<[text |-> <<"R", "i", "o">>, label_ |-> <<"LOC">>],
                  [text |-> <<"A", LF, "B">>, label_ |-> <<"PER">>]>>] }

\* ------------------------------------------------------------- token table
\* Keys of the analyses dict, in insertion order (lines 89-98).
Columns ==
    <<"Texto", "Lema", "POS", "Tag", "Dep", "Shape", "Alfabético", "Stopword">>

BoolColumns == {"Alfabético", "Stopword"}

EmptyAnalyses == [c \in {Columns[i] : i \in 1..Len(Columns)} |-> <<>>]

\* One pass of the loop body, lines 101-108 (the variant that stores the
\* lemma under "Texto" and the text under "Lema" is the mutant).
AppendTokenSwapped(analyses, token) ==
    [analyses EXCEPT !["Texto"] = Append(@, token.lemma_),
                     !["Lema"] = Append(@, token.text),
                     !["POS"] = Append(@, token.pos_),
                     !["Tag"] = Append(@, token.tag_),
                     !["Dep"] = Append(@, token.dep_),
                     !["Shape"] = Append(@, token.shape_),
                     !["Alfabético"] = Append(@, token.is_alpha),
                     !["Stopword"] = Append(@, token.is_stop)]

AppendToken(analyses, token) ==
    [analyses EXCEPT !["Texto"] = Append(@, token.text),
                     !["Lema"] = Append(@, token.lemma_),
                     !["POS"] = Append(@, token.pos_),
                     !["Tag"] = Append(@, token.tag_),
                     !["Dep"] = Append(@, token.dep_),
                     !["Shape"] = Append(@, token.shape_),
                     !["Alfabético"] = Append(@, token.is_alpha),
                     !["Stopword"] = Append(@, token.is_stop)]

\* for token in doc: ... (lines 100-108)
RECURSIVE CollectAnalyses(_, _)
CollectAnalyses(tokens, analyses) ==
    IF Len(tokens) = 0 THEN analyses
    ELSE CollectAnalyses(Tail(tokens), AppendToken(analyses, Head(tokens)))

\* str(True) / str(False), as the CSV writer formats a bool cell.
BoolStr(b) == IF b THEN <<"True">> ELSE <<"False">>

\* pd.DataFrame(analyses): row i takes the i-th entry of every column, in
\* column order; cells are formatted as to_csv will write them.
DataFrame(analyses) ==
    [i \in 1..Len(analyses[Columns[1]]) |->
        [j \in 1..Len(Columns) |->
            IF Columns[j] \in BoolColumns
            THEN BoolStr(analyses[Columns[j]][i])
            ELSE analyses[Columns[j]][i]]]

\* csv.QUOTE_MINIMAL: a field is quoted when it holds the delimiter, the
\* quote character or a line break; quotes inside are doubled.
RECURSIVE DoubleQuotes(_)
DoubleQuotes(f) ==
    IF Len(f) = 0 THEN <<>>
    ELSE (IF Head(f) = QUOTE THEN <<QUOTE, QUOTE>> ELSE <<Head(f)>>)
         \o DoubleQuotes(Tail(f))

NeedsQuoting(f) == \E i \in 1..Len(f) : f[i] \in {COMMA, QUOTE, LF, "\r"}

\* (the writer that never quotes is a mutant the token-table check detects)
CsvFieldUnquoted(f) == f

CsvField(f) ==
    IF NeedsQuoting(f) THEN <<QUOTE>> \o DoubleQuotes(f) \o <<QUOTE>> ELSE f

CsvRecord(fields) ==
    Join(<<COMMA>>, [j \in 1..Len(fields) |-> CsvField(fields[j])]) \o <<LF>>

RECURSIVE CsvRecords(_)
CsvRecords(rows) ==
    IF Len(rows) = 0 THEN <<>>
    ELSE CsvRecord(Head(rows)) \o CsvRecords(Tail(rows))

Header == [j \in 1..Len(Columns) |-> <<Columns[j]>>]

\* df.to_csv(..., index=False): the header record, then one record per row.
ToCsv(df) == CsvRecord(Header) \o CsvRecords(df)

\* A CSV reader (RFC 4180, as csv.reader): the records of a file's content.
RECURSIVE CsvScan(_, _, _, _, _)
CsvScan(s, inq, fld, row, rows) ==
    IF Len(s) = 0
    THEN (IF Len(fld) = 0 /\ Len(row) = 0 THEN rows
          ELSE Append(rows, Append(row, fld)))
    ELSE IF inq
    THEN (IF Head(s) = QUOTE
          THEN (IF Len(s) >= 2 /\ s[2] = QUOTE
                THEN CsvScan(Tail(Tail(s)), TRUE, Append(fld, QUOTE), row, rows)
                ELSE CsvScan(Tail(s), FALSE, fld, row, rows))
          ELSE CsvScan(Tail(s), TRUE, Append(fld, Head(s)), row, rows))
    ELSE IF Head(s) = QUOTE /\ Len(fld) = 0
    THEN CsvScan(Tail(s), TRUE, fld, row, rows)
    ELSE IF Head(s) = COMMA
    THEN CsvScan(Tail(s), FALSE, <<>>, Append(row, fld), rows)
    ELSE IF Head(s) = LF
    THEN CsvScan(Tail(s), FALSE, <<>>, <<>>, Append(rows, Append(row, fld)))
    ELSE CsvScan(Tail(s), FALSE, Append(fld, Head(s)), row, rows)

ParseCsv(s) == CsvScan(s, FALSE, <<>>, <<>>, <<>>)

\* ------------------------------------------------------------- span files
\* [chunk.text for chunk in doc.noun_chunks]  (line 115)
NounChunkTexts(d) == [i \in 1..Len(d.noun_chunks) |-> d.noun_chunks[i]]

\* f"{ent.text} ({ent.label_})"  (line 122)
EntityLine(ent) == ent.text \o <<" ", "(">> \o ent.label_ \o <<")">>

\* the loop of lines 120-122
NamedEntities(d) == [i \in 1..Len(d.ents) |-> EntityLine(d.ents[i])]

\* ------------------------------------------------------------- rendering
\* displacy.render(doc, style="dep", page=True): a page holding one <svg>
\* whose id starts with a prefix the renderer draws afresh on every call
\* (uuid4), followed by the words of the parse.
RenderIds == {"uuid-a", "uuid-b"}

RenderWords(d) == Join(<<" ">>, [i \in 1..Len(d.tokens) |-> d.tokens[i].text])

Render(d, id) ==
    <<"<!DOCTYPE html>", "<svg id=", id, ">">> \o RenderWords(d) \o <<"</svg>">>

\* ------------------------------------------------------------- environment
\* The paths the user may type at the prompt, and what each one is on disk.
PathKind ==
    [ p \in {"inexistente.txt", "texto.txt", "pasta", "latin1.txt", "enorme.txt"} |->
        CASE p = "inexistente.txt" -> "missing"      \* os.path.exists is False
          [] p = "texto.txt" -> "text"               \* UTF-8 text
          [] p = "pasta" -> "directory"              \* exists, open() fails
          [] p = "latin1.txt" -> "not_utf8"          \* exists, read() fails
          [] OTHER -> "too_long" ]                   \* longer than nlp.max_length

Paths == DOMAIN PathKind

\* The four output files, in the order lines 112-130 write them.
OutputFiles ==
    <<"analise_tokens.csv", "noun_chunks.txt", "entidades_nomeadas.txt",
      "visualizacao_dependencias.html">>

OutputNames == {OutputFiles[i] : i \in 1..Len(OutputFiles)}

Absent == [exists |-> FALSE, data |-> <<>>]
Stale == [exists |-> TRUE, data |-> <<"o", "l", "d", LF>>]

\* Console messages (lines 65, 69, 75, 132) and the prompt (line 137).
MsgInstall == "Instalando dependências..."
MsgDownload == "Baixando modelo 'pt_core_news_sm'..."
MsgNotFound == "O arquivo especificado não foi encontrado."
MsgDone == "Análise concluída! Os resultados foram salvos como arquivos."

\* The two subprocess command lines (lines 66, 67 and 70).
CmdPip == "pip install spacy pandas"
CmdDownload == "spacy download pt_core_news_sm"

VARIABLES
    libInstalled,    \* host: spacy and pandas are importable
    modelState,      \* host: "present" (loads), "missing" (spacy.load raises
                     \*   OSError), "broken" (importing the model package
                     \*   raises ImportError)
    files,           \* host: the four output files of the working directory
    nlpMemo,         \* the Doc the (deterministic) model yields for texto.txt,
                     \*   once it has been computed
    run,             \* number of the current invocation of the script
    pc,              \* position of the current invocation
    exc,             \* exception that ended it, or "none"
    printed,         \* what it wrote to the console
    installs,        \* subprocess.check_call calls it made: [cmd, ok]
    prompted,        \* input() was called
    file_path,       \* process_text_file's argument
    nlpLoaded,       \* line 79 returned
    textRead,        \* line 83 returned
    doc,             \* nlp(text), line 86
    annotated,       \* line 86 returned
    written,         \* output files it has written in full, in order
    filesAtRunStart, \* history: the output files when the invocation began
    hostAtRunStart,  \* history: libInstalled and modelState at that moment
    prevCompleted    \* history: the invocation before this one printed MsgDone

vars ==
    <<libInstalled, modelState, files, nlpMemo, run, pc, exc, printed,
      installs, prompted, file_path, nlpLoaded, textRead, doc, annotated,
      written, filesAtRunStart, hostAtRunStart, prevCompleted>>

hostVars == <<libInstalled, modelState>>
procVars == <<prompted, file_path, nlpLoaded, textRead, doc, annotated, written>>
histVars == <<filesAtRunStart, hostAtRunStart, prevCompleted>>

Init ==
    /\ libInstalled \in BOOLEAN
    /\ modelState \in {"present", "missing", "broken"}
    /\ files \in {[f \in OutputNames |-> Absent], [f \in OutputNames |-> Stale]}
    /\ nlpMemo = [known |-> FALSE, doc |-> NoDoc]
    /\ run = 1
    /\ pc = "import"
    /\ exc = "none"
    /\ printed = <<>>
    /\ installs = <<>>
    /\ prompted = FALSE
    /\ file_path = "inexistente.txt"
    /\ nlpLoaded = FALSE
    /\ textRead = FALSE
    /\ doc = NoDoc
    /\ annotated = FALSE
    /\ written = <<>>
    /\ filesAtRunStart = files
    /\ hostAtRunStart = [lib |-> libInstalled, model |-> modelState]
    /\ prevCompleted = FALSE

\* An exception nobody catches: the interpreter prints the trace and exits.
Raise(e) == pc' = "crashed" /\ exc' = e

\* ------------------------------------------------------------- lines 51-56
\* The module-level imports run before anything else of the script.
ModuleImports ==
    /\ pc = "import"
    /\ IF libInstalled
       THEN pc' = "ensure" /\ exc' = exc
       ELSE Raise("ImportError")
    /\ UNCHANGED <<hostVars, files, nlpMemo, run, printed, installs, procVars,
                   histVars>>

\* ------------------------------------------------------------- lines 58-70
\* The try block, lines 60-63: import spacy, import pandas, spacy.load.
ensure_dependencies_try ==
    /\ pc = "ensure"
    /\ IF ~libInstalled \/ modelState = "broken"
       THEN pc' = "except_ImportError" /\ printed' = Append(printed, MsgInstall)
       ELSE IF modelState = "missing"
       THEN pc' = "except_OSError" /\ printed' = Append(printed, MsgDownload)
       ELSE pc' = "prompt" /\ printed' = printed
    /\ UNCHANGED <<hostVars, files, nlpMemo, run, exc, installs, procVars,
                   histVars>>

\* What a download that exits 0 leaves behind: check_call looks at the exit
\* status only, nothing loads the model again.
AfterDownload == {"present", modelState}

\* subprocess.check_call: a nonzero exit raises CalledProcessError.  The
\* variant that goes on after a failed command (subprocess.call) is the
\* mutant.
PipInstallUnchecked ==
    /\ pc = "except_ImportError"
    /\ \E ok \in BOOLEAN :
        /\ installs' = Append(installs, [cmd |-> CmdPip, ok |-> ok])
        /\ libInstalled' = (libInstalled \/ ok)
        /\ pc' = "except_ImportError_download" /\ exc' = exc
    /\ UNCHANGED <<modelState, files, nlpMemo, run, printed, procVars,
                   histVars>>

\* line 66
PipInstall ==
    /\ pc = "except_ImportError"
    /\ \E ok \in BOOLEAN :
        /\ installs' = Append(installs, [cmd |-> CmdPip, ok |-> ok])
        /\ libInstalled' = (libInstalled \/ ok)
        /\ IF ok THEN pc' = "except_ImportError_download" /\ exc' = exc
           ELSE Raise("CalledProcessError")
    /\ UNCHANGED <<modelState, files, nlpMemo, run, printed, procVars,
                   histVars>>

\* lines 67 and 70
DownloadModel ==
    /\ pc \in {"except_ImportError_download", "except_OSError"}
    /\ \E ok \in BOOLEAN :
        /\ installs' = Append(installs, [cmd |-> CmdDownload, ok |-> ok])
        /\ IF ok
           THEN /\ modelState' \in AfterDownload
                /\ pc' = "prompt" /\ exc' = exc
           ELSE /\ modelState' = modelState
                /\ Raise("CalledProcessError")
    /\ UNCHANGED <<libInstalled, files, nlpMemo, run, printed, procVars,
                   histVars>>

\* ------------------------------------------------------------- line 137
\* input() returns the line typed, or raises EOFError on a closed stdin.
Prompt ==
    /\ pc = "prompt"
    /\ prompted' = TRUE
    /\ \/ \E p \in Paths : file_path' = p /\ pc' = "exists" /\ exc' = exc
       \/ file_path' = file_path /\ Raise("EOFError")
    /\ UNCHANGED <<hostVars, files, nlpMemo, run, printed, installs,
                   nlpLoaded, textRead, doc, annotated, written, histVars>>

\* ------------------------------------------------------------- lines 72-76
\* if not os.path.exists(file_path): print(...); return.  The variant
\* that prints and falls through (no return) is the mutant.
PathCheckNoReturn ==
    /\ pc = "exists"
    /\ IF PathKind[file_path] = "missing"
       THEN printed' = Append(printed, MsgNotFound)
       ELSE printed' = printed
    /\ pc' = "load"
    /\ UNCHANGED <<hostVars, files, nlpMemo, run, exc, installs, procVars,
                   histVars>>

PathCheck ==
    /\ pc = "exists"
    /\ IF PathKind[file_path] = "missing"
       THEN pc' = "done" /\ printed' = Append(printed, MsgNotFound)
       ELSE pc' = "load" /\ printed' = printed
    /\ UNCHANGED <<hostVars, files, nlpMemo, run, exc, installs, procVars,
                   histVars>>

\* ------------------------------------------------------------- line 79
\* nlp = spacy.load("pt_core_news_sm").  The variant that answers a load
\* failure by provisioning again is the mutant.
LoadModelRetry ==
    /\ pc = "load"
    /\ IF modelState = "present"
       THEN nlpLoaded' = TRUE /\ pc' = "read"
       ELSE nlpLoaded' = nlpLoaded /\ pc' = "ensure"
    /\ UNCHANGED <<hostVars, files, nlpMemo, run, exc, printed, installs,
                   prompted, file_path, textRead, doc, annotated, written,
                   histVars>>

LoadModel ==
    /\ pc = "load"
    /\ IF modelState = "present"
       THEN nlpLoaded' = TRUE /\ pc' = "read" /\ exc' = exc
       ELSE /\ nlpLoaded' = nlpLoaded
            /\ Raise(IF modelState = "missing" THEN "OSError" ELSE "ImportError")
    /\ UNCHANGED <<hostVars, files, nlpMemo, run, printed, installs, prompted,
                   file_path, textRead, doc, annotated, written, histVars>>

\* ------------------------------------------------------------- lines 82-83
ReadFile ==
    /\ pc = "read"
    /\ CASE PathKind[file_path] = "directory" ->
              textRead' = textRead /\ Raise("IsADirectoryError")
         [] PathKind[file_path] = "not_utf8" ->
              textRead' = textRead /\ Raise("UnicodeDecodeError")
         [] PathKind[file_path] = "missing" ->
              textRead' = textRead /\ Raise("FileNotFoundError")
         [] OTHER ->
              textRead' = TRUE /\ pc' = "annotate" /\ exc' = exc
    /\ UNCHANGED <<hostVars, files, nlpMemo, run, printed, installs, prompted,
                   file_path, nlpLoaded, doc, annotated, written, histVars>>

\* ------------------------------------------------------------- output files
\* open(name, "w") followed by write(data): whatever the file held is gone.
\* Opening in append mode is the mutant.
OpenAppend(old, data) == [exists |-> TRUE, data |-> old.data \o data]

OpenWrite(old, data) == [exists |-> TRUE, data |-> data]

\* What a failed write can leave: the old file (open failed), or a file
\* truncated by open whose write stopped at once or half-way.
WriteFailure(old, data) ==
    { old,
      [exists |-> TRUE, data |-> <<>>],
      [exists |-> TRUE, data |-> SubSeq(data, 1, Len(data) \div 2)] }

\* The exporter of file `name` succeeds and control goes on to `next`.
Written(name, data, next) ==
    /\ files' = [files EXCEPT ![name] = OpenWrite(files[name], data)]
    /\ written' = Append(written, name)
    /\ pc' = next
    /\ exc' = exc

\* The exporter of file `name` fails: OSError, caught nowhere.
WriteFails(name, data) ==
    /\ \E left \in WriteFailure(files[name], data) :
           files' = [files EXCEPT ![name] = left]
    /\ written' = written
    /\ Raise("OSError")

\* The same failure swallowed by an except clause: control goes on.
WriteFailsCaught(name, data, next) ==
    /\ \E left \in WriteFailure(files[name], data) :
           files' = [files EXCEPT ![name] = left]
    /\ written' = written
    /\ pc' = next
    /\ exc' = exc

\* ------------------------------------------------------------- line 86
\* doc = nlp(text).  The model is a function of the text: the first call
\* fixes the Doc of texto.txt, later invocations get the same one.  A text
\* longer than nlp.max_length raises ValueError.  The variant that has
\* already opened the token table for writing is the mutant.
AnnotateAfterOpen(D) ==
    /\ pc = "annotate"
    /\ files' = [files EXCEPT ![OutputFiles[1]] = OpenWrite(@, <<>>)]
    /\ IF PathKind[file_path] = "too_long"
       THEN /\ Raise("ValueError")
            /\ UNCHANGED <<doc, annotated, nlpMemo>>
       ELSE /\ \E d \in D :
                /\ nlpMemo.known => d = nlpMemo.doc
                /\ doc' = d
                /\ nlpMemo' = [known |-> TRUE, doc |-> d]
            /\ annotated' = TRUE
            /\ pc' = "csv" /\ exc' = exc
    /\ UNCHANGED <<hostVars, run, printed, installs, prompted, file_path,
                   nlpLoaded, textRead, written, histVars>>

Annotate(D) ==
    /\ pc = "annotate"
    /\ IF PathKind[file_path] = "too_long"
       THEN /\ Raise("ValueError")
            /\ UNCHANGED <<doc, annotated, nlpMemo>>
       ELSE /\ \E d \in D :
                /\ nlpMemo.known => d = nlpMemo.doc
                /\ doc' = d
                /\ nlpMemo' = [known |-> TRUE, doc |-> d]
            /\ annotated' = TRUE
            /\ pc' = "csv" /\ exc' = exc
    /\ UNCHANGED <<hostVars, files, run, printed, installs, prompted,
                   file_path, nlpLoaded, textRead, written, histVars>>

\* ------------------------------------------------------------- lines 89-112
\* The analyses dict after the loop, and the token table's file content.
Analyses(d) == CollectAnalyses(d.tokens, EmptyAnalyses)

TokenTable(d) == ToCsv(DataFrame(Analyses(d)))

ExportTokens ==
    /\ pc = "csv"
    /\ \/ Written(OutputFiles[1], TokenTable(doc), "chunks")
       \/ WriteFails(OutputFiles[1], TokenTable(doc))
    /\ UNCHANGED <<hostVars, nlpMemo, run, printed, installs, prompted,
                   file_path, nlpLoaded, textRead, doc, annotated, histVars>>

\* ------------------------------------------------------------- lines 114-117
NounChunksFile(d) == Join(<<LF>>, NounChunkTexts(d))

\* The variant whose write is wrapped in try/except and goes on is the
\* mutant.
ExportNounChunksCaught ==
    /\ pc = "chunks"
    /\ \/ Written(OutputFiles[2], NounChunksFile(doc), "ents")
       \/ WriteFailsCaught(OutputFiles[2], NounChunksFile(doc), "ents")
    /\ UNCHANGED <<hostVars, nlpMemo, run, printed, installs, prompted,
                   file_path, nlpLoaded, textRead, doc, annotated, histVars>>

ExportNounChunks ==
    /\ pc = "chunks"
    /\ \/ Written(OutputFiles[2], NounChunksFile(doc), "ents")
       \/ WriteFails(OutputFiles[2], NounChunksFile(doc))
    /\ UNCHANGED <<hostVars, nlpMemo, run, printed, installs, prompted,
                   file_path, nlpLoaded, textRead, doc, annotated, histVars>>

\* ------------------------------------------------------------- lines 119-125
EntitiesFile(d) == Join(<<LF>>, NamedEntities(d))

ExportEntities ==
    /\ pc = "ents"
    /\ \/ Written(OutputFiles[3], EntitiesFile(doc), "html")
       \/ WriteFails(OutputFiles[3], EntitiesFile(doc))
    /\ UNCHANGED <<hostVars, nlpMemo, run, printed, installs, prompted,
                   file_path, nlpLoaded, textRead, doc, annotated, histVars>>

\* ------------------------------------------------------------- lines 127-132
ExportHtml ==
    /\ pc = "html"
    /\ \E id \in RenderIds :
        \/ /\ Written(OutputFiles[4], Render(doc, id), "done")
           /\ printed' = Append(printed, MsgDone)
        \/ /\ WriteFails(OutputFiles[4], Render(doc, id))
           /\ printed' = printed
    /\ UNCHANGED <<hostVars, nlpMemo, run, installs, prompted, file_path,
                   nlpLoaded, textRead, doc, annotated, histVars>>

\* ------------------------------------------------------------- next run
\* The invocation ran to line 132.
Completed == pc = "done" /\ Len(printed) > 0 /\ printed[Len(printed)] = MsgDone

\* The user starts the script again: a new process on the same host.
Restart ==
    /\ pc \in {"done", "crashed"}
    /\ run < MaxRuns
    /\ run' = run + 1
    /\ pc' = "import"
    /\ exc' = "none"
    /\ printed' = <<>>
    /\ installs' = <<>>
    /\ prompted' = FALSE
    /\ file_path' = "inexistente.txt"
    /\ nlpLoaded' = FALSE
    /\ textRead' = FALSE
    /\ doc' = NoDoc
    /\ annotated' = FALSE
    /\ written' = <<>>
    /\ filesAtRunStart' = files
    /\ hostAtRunStart' = [lib |-> libInstalled, model |-> modelState]
    /\ prevCompleted' = Completed
    /\ UNCHANGED <<hostVars, files, nlpMemo>>

\* The body of ensure_dependencies (lines 58-70).
ensure_dependencies == ensure_dependencies_try \/ PipInstall \/ DownloadModel

\* The body of process_text_file (lines 72-132).
process_text_file(D) ==
    \/ PathCheck
    \/ LoadModel
    \/ ReadFile
    \/ Annotate(D)
    \/ ExportTokens
    \/ ExportNounChunks
    \/ ExportEntities
    \/ ExportHtml

\* Repeated invocations of the script (lines 135-138) on one host; the model
\* answers with one of SampleDocs.
Next ==
    \/ ModuleImports
    \/ ensure_dependencies
    \/ Prompt
    \/ process_text_file(SampleDocs)
    \/ Restart

Spec == Init /\ [][Next]_vars

\* One invocation of the script; the model answers with any of Docs.
NextDoc ==
    \/ ModuleImports
    \/ ensure_dependencies
    \/ Prompt
    \/ process_text_file(Docs)

SpecDoc == Init /\ [][NextDoc]_vars

\* ------------------------------------------------------------- properties
Last(sq) == sq[Len(sq)]
Occurs(x, sq) == \E i \in 1..Len(sq) : sq[i] = x
Out(i) == OutputFiles[i]
IsWritten(name) == Occurs(name, written)
AllStale == \A f \in OutputNames : filesAtRunStart[f] = Stale

\* What a row of the token table has to hold for a token.
TokenFields(t) ==
    <<t.text, t.lemma_, t.pos_, t.tag_, t.dep_, t.shape_,
      BoolStr(t.is_alpha), BoolStr(t.is_stop)>>

\* input() returned a path that does not exist and line 74 has tested it.
PathRejected ==
    /\ prompted /\ exc # "EOFError"
    /\ PathKind[file_path] = "missing"
    /\ pc # "exists"

\* C1: once a path that does not exist has been checked, the invocation has
\* ended normally (no exception, exit status 0) with the not-found message
\* as its last output, the completion message was never printed, line 79
\* did not load the model, the file was not read, nothing was annotated and
\* the four output files are as they were when the invocation began.
C1_MissingPathIsSoft ==
    PathRejected =>
        /\ pc = "done"
        /\ exc = "none"
        /\ Len(printed) > 0 /\ Last(printed) = MsgNotFound
        /\ ~Occurs(MsgDone, printed)
        /\ ~nlpLoaded /\ ~textRead /\ ~annotated
        /\ written = <<>>
        /\ files = filesAtRunStart

C1_Witness == PathRejected /\ pc = "done" /\ AllStale

ProvisioningOver ==
    pc \notin {"import", "ensure", "except_ImportError",
               "except_ImportError_download", "except_OSError"}

InstallCmds == [i \in 1..Len(installs) |-> installs[i].cmd]
InstallsOk == \A i \in 1..Len(installs) : installs[i].ok
AtPromptOrBeyond == pc = "prompt" \/ prompted

\* The half of C2 about a missing model: the download alone was started,
\* and if it succeeded the invocation is at the prompt or beyond it.
C2_ModelMissingPart ==
    (ProvisioningOver /\ hostAtRunStart.lib /\ hostAtRunStart.model = "missing") =>
        /\ InstallCmds = <<CmdDownload>>
        /\ InstallsOk => AtPromptOrBeyond

\* The half of C2 about a missing library: the library installation was
\* started, then (if it succeeded) the download, then the prompt.
C2_LibraryMissingPart ==
    (ProvisioningOver /\ ~hostAtRunStart.lib) =>
        /\ Len(installs) >= 1 /\ installs[1].cmd = CmdPip
        /\ installs[1].ok => (Len(installs) >= 2 /\ installs[2].cmd = CmdDownload)
        /\ InstallsOk => AtPromptOrBeyond

\* C2: when provisioning is over, a library that was missing at start-up
\* has triggered the library installation and then the model download, a
\* model that was missing (library present) has triggered the download
\* alone, and if the commands succeeded the invocation is at the path
\* prompt or beyond it.
C2_RemedialStepTriggered == C2_ModelMissingPart /\ C2_LibraryMissingPart

\* Line 112 has just returned.
TokenTableWritten == pc = "chunks"

\* C3: when the token table has been written, reading analise_tokens.csv
\* back as CSV gives the header and then exactly one record per token,
\* record i holding the eight attributes of token i; and the eight columns
\* of analyses are as long as the document has tokens.
C3_TokenTableRows ==
    TokenTableWritten =>
        LET recs == ParseCsv(files[Out(1)].data)
            cols == Analyses(doc)
        IN /\ Len(recs) = Len(doc.tokens) + 1
           /\ recs[1] = Header
           /\ \A i \in 1..Len(doc.tokens) : recs[i + 1] = TokenFields(doc.tokens[i])
           /\ \A c \in DOMAIN cols : Len(cols[c]) = Len(doc.tokens)

C3_Witness ==
    /\ TokenTableWritten
    /\ Len(doc.tokens) >= 2
    /\ doc.tokens[1] # doc.tokens[2]
    /\ \E i \in 1..Len(doc.tokens) : doc.tokens[i].text = <<LF>>
    /\ \E i \in 1..Len(doc.tokens) : doc.tokens[i].text = <<QUOTE>>

\* C4: once noun_chunks.txt has been written, it has as many lines as the
\* document has noun chunks, line i being the text of chunk i.
C4_NounChunkLines ==
    IsWritten(Out(2)) => Lines(files[Out(2)].data) = NounChunkTexts(doc)

\* C5: once entidades_nomeadas.txt has been written, it has as many lines
\* as the document has entities, line i being entity i's text, a space and
\* its label in parentheses.
C5_EntityLines ==
    IsWritten(Out(3)) =>
        LET ls == Lines(files[Out(3)].data)
        IN /\ Len(ls) = Len(doc.ents)
           /\ \A i \in 1..Len(doc.ents) :
                  ls[i] = doc.ents[i].text \o <<" ", "(">> \o doc.ents[i].label_ \o <<")">>

\* C6 as stated: when an invocation completes right after one that
\* completed too (same input, same host, same Doc), each of the four output
\* files holds exactly what it held when this invocation began.
C6_ByteIdentical ==
    (Completed /\ prevCompleted) =>
        \A f \in OutputNames : files[f] = filesAtRunStart[f]

\* The file holds a rendering of d, under one id or another.
IsRendering(file, d) ==
    \E id \in RenderIds : file = [exists |-> TRUE, data |-> Render(d, id)]

\* C6 as amended: a completed invocation leaves every output file holding
\* exactly what its exporter produced, whatever it held before; after two
\* completed invocations in a row the three text files are identical to
\* what the first left, and the HTML file is a rendering of the same Doc
\* that may differ from the first one in the renderer's id only.
C6_OverwriteIdempotent ==
    /\ Completed =>
        /\ files[Out(1)] = [exists |-> TRUE, data |-> TokenTable(doc)]
        /\ files[Out(2)] = [exists |-> TRUE, data |-> NounChunksFile(doc)]
        /\ files[Out(3)] = [exists |-> TRUE, data |-> EntitiesFile(doc)]
        /\ IsRendering(files[Out(4)], doc)
    /\ (Completed /\ prevCompleted) =>
        /\ \A i \in 1..3 : files[Out(i)] = filesAtRunStart[Out(i)]
        /\ IsRendering(filesAtRunStart[Out(4)], doc)

C6_Witness ==
    /\ Completed /\ prevCompleted
    /\ Len(doc.tokens) > 0
    /\ files[Out(4)] # filesAtRunStart[Out(4)]

\* The stage a position belongs to: provisioning, load, annotate, the four
\* exports, and the end of the invocation.
StageOf(p) ==
    CASE p \in {"import", "ensure", "except_ImportError",
                "except_ImportError_download", "except_OSError"} -> 0
      [] p \in {"prompt", "exists", "load", "read"} -> 1
      [] p = "annotate" -> 2
      [] p = "csv" -> 3
      [] p = "chunks" -> 4
      [] p = "ents" -> 5
      [] p = "html" -> 6
      [] OTHER -> 7

\* The work of the stages before the current one is done.
StageReady ==
    /\ StageOf(pc) \in 1..6 => (libInstalled /\ InstallsOk)
    /\ StageOf(pc) \in 2..6 => (prompted /\ nlpLoaded /\ textRead)
    /\ StageOf(pc) \in 3..6 =>
          (annotated /\ written = SubSeq(OutputFiles, 1, StageOf(pc) - 3))
    /\ Completed => (annotated /\ written = OutputFiles)

\* C7: within one invocation every step stays in its stage or moves to the
\* next one in the order provisioning, load, annotate, token table, noun
\* chunks, entities, HTML, or ends the invocation; a stage is entered only
\* with the work of the stages before it done.
C7_StagesInOrder ==
    [][ run' = run =>
          /\ \/ StageOf(pc') = StageOf(pc)
             \/ StageOf(pc') = StageOf(pc) + 1
             \/ pc' \in {"done", "crashed"}
          /\ StageReady' ]_vars

C7_Witness == Completed /\ written = OutputFiles /\ Len(installs) = 2

\* The invocation ended in an exception after line 86: in an exporter.
ExporterFailed == pc = "crashed" /\ annotated

\* What the i-th of the three text exporters writes for d.
Exported(i, d) ==
    [exists |-> TRUE,
     data |-> CASE i = 1 -> TokenTable(d)
                [] i = 2 -> NounChunksFile(d)
                [] OTHER -> EntitiesFile(d)]

\* C8: when an exporter's write has failed, the invocation has ended with
\* that exception, the completion message was not printed, the exporters
\* before the failing one were the only ones that ran and their files hold
\* what they wrote, and the files of the exporters after it are as they
\* were when the invocation began.
C8_WriteFailureAborts ==
    ExporterFailed =>
        LET k == Len(written)
        IN /\ exc = "OSError"
           /\ ~Occurs(MsgDone, printed)
           /\ k < Len(OutputFiles)
           /\ written = SubSeq(OutputFiles, 1, k)
           /\ \A i \in 1..k : files[Out(i)] = Exported(i, doc)
           /\ \A i \in (k + 2)..Len(OutputFiles) :
                  files[Out(i)] = filesAtRunStart[Out(i)]

C8_Witness ==
    /\ ExporterFailed
    /\ Len(written) = 2
    /\ AllStale
    /\ files[Out(3)] # filesAtRunStart[Out(3)]
    /\ Len(doc.ents) > 0

\* A command started by ensure_dependencies exited nonzero.
InstallFailed == \E i \in 1..Len(installs) : ~installs[i].ok

\* C9: when a command started by ensure_dependencies has failed, it is the
\* last command the invocation started, no command was started twice, the
\* invocation has ended with CalledProcessError, the user was not prompted
\* and the output files are as they were when the invocation began.
C9_InstallFailureAborts ==
    InstallFailed =>
        /\ \A i \in 1..Len(installs) : ~installs[i].ok => i = Len(installs)
        /\ \A i, j \in 1..Len(installs) : installs[i].cmd = installs[j].cmd => i = j
        /\ pc = "crashed" /\ exc = "CalledProcessError"
        /\ ~prompted
        /\ written = <<>>
        /\ files = filesAtRunStart

C9_Witness ==
    /\ installs = <<[cmd |-> CmdPip, ok |-> FALSE]>>
    /\ pc = "crashed"

\* C10: as long as the annotation has not succeeded, no output file has
\* been created or modified; the annotation succeeds only after the path
\* check, the model load and the read; so an invocation that ends in a
\* failure of the load, the read or the annotation leaves the four files
\* as they were.
C10_NoOutputBeforeAnnotation ==
    /\ ~annotated => (files = filesAtRunStart /\ written = <<>>)
    /\ annotated => (prompted /\ PathKind[file_path] = "text" /\ nlpLoaded /\ textRead)

C10_Witness ==
    /\ pc = "crashed" /\ exc = "ValueError"
    /\ nlpLoaded /\ textRead /\ ~annotated
    /\ AllStale
    /\ Len(installs) > 0
====
